---- MODULE Spec2Model ----
(***************************************************************************)
(* EAMP real-time core: the server's WebSocketManager (connection          *)
(* registry, subscription index, fan-out), the client's WebSocketTransport *)
(* (connect, heartbeat, reconnect with backoff, pending queue) and the     *)
(* EAMPClient subscription set on top of it.                               *)
(***************************************************************************)
EXTENDS Integers, Sequences, FiniteSets, TLC

\* ------------------------------------------------------------------ bounds
MaxConns == 3          \* connections the server ever sees in a run
MaxSockets == 2        \* sockets the client's transport ever creates in a run
MaxInFlight == 1       \* frames in transit on one socket, per direction
MaxQueue == 3          \* messages in the transport's pending queue
MaxHandles == 3        \* subscribe() calls on the provider in a run
MaxEvents == 3         \* change events published as a numbered series in a run
MaxListeners == 2      \* 'metadataUpdated' listeners the application registers
MaxGets == 1           \* HTTP GET requests of getMetadata() in flight at once
MaxRetry == 3          \* the largest options.retryAttempts a transport is built with

\* ------------------------------------------------------- program constants
heartbeatInterval == 30000    \* config.websocket.heartbeatInterval (ms)
maxConnections == 2           \* config.websocket.maxConnections, as WS_MAX_CONNECTIONS=2
maxReconnectAttempts == 5     \* WebSocketTransport.maxReconnectAttempts
reconnectDelay == 1000        \* WebSocketTransport.reconnectDelay (ms)
reconnectDelayCap == 30000    \* Math.min(..., 30000) in reconnect()
NormalClosure == 1000         \* close code of disconnect()
GoingAway == 1001             \* close code of the heartbeat timeout
AbnormalClosure == 1006       \* close code of a connection lost without a close frame
cacheTTL == 300000            \* ClientOptionsSchema.cacheTTL, its default (ms)
cacheEnabled == TRUE          \* ClientOptionsSchema.cacheEnabled, its default
retryDelay == 1000            \* 1000 * Math.pow(2, attempt) in request() (ms)
retryDelayCap == 10000        \* Math.min(..., 10000) in request()

Conns == 1..MaxConns
Socks == 1..MaxSockets        \* the connections that are sockets of the client's transport
NoRes == "none"               \* no subscribe() call is waiting
Resources == {"sales-chart-2024", "r2"}
Callbacks == {"cb1", "cb2"}       \* the callback functions components pass to the provider
Payloads == {"v1", "v2"}          \* metadata objects that pass EAMPMetadataSchema
None == "null"                    \* no metadata: a cache miss, a call that returned nothing
Other == [op |-> "other"]

\* Time is kept relative to the present instant: Date.now() is Now, a stored
\* timestamp is an offset <= 0 from it, and the passing of TickMs shifts every
\* stored timestamp back. Offsets older than Stale are all timed out alike (the
\* code only compares an age with 2 * heartbeatInterval, once per interval), so
\* they are kept at Stale.
Now == 0
TickMs == heartbeatInterval
Stale == Now - (3 * heartbeatInterval + TickMs)
Older(ts) == IF ts - TickMs < Stale THEN Stale ELSE ts - TickMs

VARIABLES
  \* ---- server: WebSocketManager
  clients,        \* Map clientId -> [subscriptions, lastSeen]
  subscriptions,  \* Map resourceId -> Set of clientIds (the index)
  srvWs,          \* readyState of each connection's socket, as the server sees it
  sweepIn,        \* time left until the heartbeat interval timer fires (ms)
  db,             \* MetadataDatabase: the resourceIds that have a metadata record
  published,      \* number of events of the numbered series published so far
  outbox,         \* per connection, the numbers of the events written to its socket, in order
  lastOp,         \* the handler that ran last with its inputs and writes, where a claim reads it
  \* ---- client: WebSocketTransport
  ws,             \* this.ws: the current socket, 0 when undefined
  sock,           \* readyState of each socket the transport created
  reconnectAttempts,
  isReconnecting,
  messageQueue,
  hbLive,         \* number of armed heartbeat interval timers
  hbCur,          \* this.heartbeatInterval is set (it names an armed timer)
  ptLive,         \* number of armed pong timeouts
  ptCur,          \* this.heartbeatTimeoutId names an armed pong timeout
  sleepers,       \* reconnect() calls in their backoff sleep: <<[delay, sub]>>
  waiter,         \* per socket, the caller awaiting its connect() promise
  fatal,          \* 'Failed to reconnect after N attempts' has been emitted
  lost,           \* an abnormal close was seen and no socket has opened since
  userClosed,     \* disconnect() ran and the application has not called subscribe() since
  \* ---- client: EAMPClient
  cliSubs,        \* this.subscriptions
  notified,       \* the updates emitted as 'metadataUpdated'
  cache,          \* this.cache: Map resourceId -> [value, age], age of the entry in ms
  listeners,      \* number of 'metadataUpdated' listeners, in registration order 1..n
  gets,           \* the resourceIds of the HTTP GET requests of getMetadata() in flight
  \* ---- client: HttpTransport
  http,           \* the running request() call: its loop variables and what it has done so far
  \* ---- client: EAMPProvider
  provSubs,       \* subscriptionsRef.current: Map resourceId -> Set object (its identity)
  provSets,       \* the Set objects created so far, by identity: the callbacks each holds
  handles,        \* the release closures returned so far: <<[resourceId, callback, callbacks, calls]>>
  provSent,       \* the frames the provider passed to client.ws.send
  \* ---- network
  c2s,            \* frames in transit from the client to the server, per socket
  s2c,            \* frames in transit from the server to the client, per socket
  served          \* the transport is connected to this server (else to some other peer)

srvAux == <<db, published, outbox>>
srvVars == <<clients, subscriptions, srvWs, sweepIn, srvAux>>
provVars == <<provSubs, provSets, handles, provSent>>
cliVars == <<ws, sock, reconnectAttempts, isReconnecting, messageQueue, hbLive, hbCur,
             ptLive, ptCur, sleepers, waiter, fatal, lost, userClosed, cliSubs, notified,
             cache, listeners, gets, http, provVars>>
netVars == <<c2s, s2c, served>>
vars == <<srvVars, lastOp, cliVars, netVars>>

\* ------------------------------------------------------------ wire format
\* JSON.stringify: a frame carrying the object
Stringify(m) == [json |-> TRUE, body |-> m]
\* JSON.parse succeeds exactly on frames that carry JSON
ParseOk(data) == data.json
Parse(data) == data.body
\* message.type / message.resourceId: undefined when the property is absent
Prop(m, f) == IF f \in DOMAIN m THEN m[f] ELSE "undefined"

\* ------------------------------------------------- server state as a record
\* wrote: what the running handler has written to sockets so far, in order
Srv == [clients |-> clients, subscriptions |-> subscriptions, ws |-> srvWs,
        wrote |-> <<>>]

\* Map.delete on a function with a dynamic domain
MapDelete(f, k) == [x \in (DOMAIN f) \ {k} |-> f[x]]
MapSet(f, k, v) == [x \in (DOMAIN f) \cup {k} |-> IF x = k THEN v ELSE f[x]]

\* a handleDisconnection that removes the client and forgets the index
handleDisconnectionKeepsIndex(S, c) ==
  IF c \notin DOMAIN S.clients THEN S
  ELSE [S EXCEPT !.clients = MapDelete(S.clients, c)]

\* a handleDisconnection that deletes the whole index entry of each resource held
handleDisconnectionDropsEntry(S, c) ==
  IF c \notin DOMAIN S.clients THEN S
  ELSE LET held == S.clients[c].subscriptions
           idx == S.subscriptions
       IN [S EXCEPT !.subscriptions = [r \in (DOMAIN idx) \ held |-> idx[r]],
                    !.clients = MapDelete(S.clients, c)]

\* handleDisconnection(clientId)
handleDisconnection(S, c) ==
  IF c \notin DOMAIN S.clients THEN S
  ELSE LET held == S.clients[c].subscriptions
           idx == S.subscriptions
           keep == {r \in DOMAIN idx : ~(r \in held /\ idx[r] \ {c} = {})}
       IN [S EXCEPT !.subscriptions =
                      [r \in keep |-> IF r \in held THEN idx[r] \ {c} ELSE idx[r]],
                    !.clients = MapDelete(S.clients, c)]

\* sendToClient(clientId, message); throws: the socket write throws
sendToClient(S, c, m, throws) ==
  IF c \notin DOMAIN S.clients \/ S.ws[c] # "open" THEN S
  ELSE IF throws THEN handleDisconnection(S, c)
  ELSE [S EXCEPT !.wrote = Append(@, [to |-> c, msg |-> m])]

\* a handleSubscription for which a second subscribe undoes the first
handleSubscriptionToggles(S, c, m, throws) ==
  IF c \notin DOMAIN S.clients THEN S
  ELSE LET r == Prop(m, "resourceId")
           idx == S.subscriptions
           S1 == IF r \in S.clients[c].subscriptions
                 THEN [S EXCEPT !.clients[c].subscriptions = @ \ {r},
                                !.subscriptions =
                                   IF idx[r] = {c} THEN MapDelete(idx, r)
                                   ELSE [idx EXCEPT ![r] = @ \ {c}]]
                 ELSE [S EXCEPT !.clients[c].subscriptions = @ \cup {r},
                                !.subscriptions =
                                   MapSet(idx, r, (IF r \in DOMAIN idx THEN idx[r] ELSE {}) \cup {c})]
       IN sendToClient(S1, c, [type |-> "subscribed", resourceId |-> r], throws)

\* handleSubscription(clientId, message)
handleSubscription(S, c, m, throws) ==
  IF c \notin DOMAIN S.clients THEN S
  ELSE LET r == Prop(m, "resourceId")
           idx == S.subscriptions
           S1 == [S EXCEPT !.clients[c].subscriptions = @ \cup {r},
                           !.subscriptions =
                              MapSet(idx, r, (IF r \in DOMAIN idx THEN idx[r] ELSE {}) \cup {c})]
       IN sendToClient(S1, c, [type |-> "subscribed", resourceId |-> r], throws)

\* a handleUnsubscription that keeps the index entry when its last connection leaves
handleUnsubscriptionKeepsEntry(S, c, m, throws) ==
  IF c \notin DOMAIN S.clients THEN S
  ELSE LET r == Prop(m, "resourceId")
           idx == S.subscriptions
           idx1 == IF r \in DOMAIN idx THEN [idx EXCEPT ![r] = @ \ {c}] ELSE idx
           S1 == [S EXCEPT !.clients[c].subscriptions = @ \ {r},
                           !.subscriptions = idx1]
       IN sendToClient(S1, c, [type |-> "unsubscribed", resourceId |-> r], throws)

\* handleUnsubscription(clientId, message)
handleUnsubscription(S, c, m, throws) ==
  IF c \notin DOMAIN S.clients THEN S
  ELSE LET r == Prop(m, "resourceId")
           idx == S.subscriptions
           idx1 == IF r \in DOMAIN idx
                   THEN IF idx[r] \ {c} = {} THEN MapDelete(idx, r)
                        ELSE [idx EXCEPT ![r] = @ \ {c}]
                   ELSE idx
           S1 == [S EXCEPT !.clients[c].subscriptions = @ \ {r},
                           !.subscriptions = idx1]
       IN sendToClient(S1, c, [type |-> "unsubscribed", resourceId |-> r], throws)

\* a handleMessage that drops the connection on a message it does not understand
handleMessageStrict(S, c, data, t, throws) ==
  IF c \notin DOMAIN S.clients THEN S
  ELSE LET S0 == [S EXCEPT !.clients[c].lastSeen = t]
           ty == IF ParseOk(data) THEN Prop(Parse(data), "type") ELSE "undefined"
       IN CASE ty = "ping" -> sendToClient(S0, c, [type |-> "pong"], throws)
            [] ty = "subscribe" -> handleSubscription(S0, c, Parse(data), throws)
            [] ty = "unsubscribe" -> handleUnsubscription(S0, c, Parse(data), throws)
            [] OTHER -> handleDisconnection(
                          sendToClient(S0, c, [type |-> "error",
                                               message |-> "Unknown message type"], throws), c)

\* a handleMessage that answers a ping without counting it as a sign of life
handleMessageIgnoresPing(S, c, data, t, throws) ==
  IF c \notin DOMAIN S.clients THEN S
  ELSE LET S0 == [S EXCEPT !.clients[c].lastSeen = t]
       IN IF ~ParseOk(data)
          THEN sendToClient(S0, c, [type |-> "error", message |-> "Invalid message format"], throws)
          ELSE LET m == Parse(data)
                   ty == Prop(m, "type")
               IN CASE ty = "ping" -> sendToClient(S, c, [type |-> "pong"], throws)
                    [] ty = "subscribe" -> handleSubscription(S0, c, m, throws)
                    [] ty = "unsubscribe" -> handleUnsubscription(S0, c, m, throws)
                    [] OTHER -> sendToClient(S0, c, [type |-> "error",
                                                     message |-> "Unknown message type"], throws)

\* handleMessage(clientId, data) at server time t
handleMessage(S, c, data, t, throws) ==
  IF c \notin DOMAIN S.clients THEN S
  ELSE LET S0 == [S EXCEPT !.clients[c].lastSeen = t]
       IN IF ~ParseOk(data)
          THEN sendToClient(S0, c, [type |-> "error", message |-> "Invalid message format"], throws)
          ELSE LET m == Parse(data)
                   ty == Prop(m, "type")
               IN CASE ty = "ping" -> sendToClient(S0, c, [type |-> "pong"], throws)
                    [] ty = "subscribe" -> handleSubscription(S0, c, m, throws)
                    [] ty = "unsubscribe" -> handleUnsubscription(S0, c, m, throws)
                    [] OTHER -> sendToClient(S0, c, [type |-> "error",
                                                     message |-> "Unknown message type"], throws)

\* a handleConnection without the connection limit
handleConnectionNoLimit(S, c, t, throws) ==
  LET S1 == [S EXCEPT !.ws[c] = "open",
                      !.clients = MapSet(S.clients, c,
                                         [subscriptions |-> {}, lastSeen |-> t])]
  IN sendToClient(S1, c, [type |-> "connected", clientId |-> c], throws)

\* handleConnection(ws, req); the new connection gets id c
handleConnection(S, c, t, throws) ==
  IF Cardinality(DOMAIN S.clients) >= maxConnections
  THEN [S EXCEPT !.ws[c] = "closed"]
  ELSE LET S1 == [S EXCEPT !.ws[c] = "open",
                           !.clients = MapSet(S.clients, c,
                                              [subscriptions |-> {}, lastSeen |-> t])]
       IN sendToClient(S1, c, [type |-> "connected", clientId |-> c], throws)

\* a broadcast loop that a throwing write aborts
RECURSIVE broadcastLoopAborts(_, _, _, _)
broadcastLoopAborts(S, todo, update, F) ==
  IF todo = {} THEN S
  ELSE LET c == CHOOSE x \in todo : \A y \in todo : x <= y
       IN IF c \in F THEN sendToClient(S, c, update, TRUE)
          ELSE broadcastLoopAborts(sendToClient(S, c, update, FALSE), todo \ {c}, update, F)

\* the for-of loop of broadcastMetadataUpdate over the subscribers still to visit;
\* F: the connections whose socket write throws
RECURSIVE broadcastLoop(_, _, _, _)
broadcastLoop(S, todo, update, F) ==
  IF todo = {} THEN S
  ELSE LET c == CHOOSE x \in todo : \A y \in todo : x <= y
       IN broadcastLoop(sendToClient(S, c, update, c \in F), todo \ {c}, update, F)

\* a broadcast to every registered connection, subscribed or not
broadcastToAll(S, update, F) ==
  broadcastLoop(S, DOMAIN S.clients, update, F)

\* broadcastMetadataUpdate(update)
broadcastMetadataUpdate(S, update, F) ==
  LET r == update.resourceId
  IN IF r \notin DOMAIN S.subscriptions \/ S.subscriptions[r] = {} THEN S
     ELSE broadcastLoop(S, S.subscriptions[r], update, F)

\* a sweep that lets a connection live for three intervals of silence
RECURSIVE sweepLoopLenient(_, _, _)
sweepLoopLenient(S, todo, t) ==
  IF todo = {} THEN S
  ELSE LET c == CHOOSE x \in todo : \A y \in todo : x <= y
           S1 == IF t - S.clients[c].lastSeen > heartbeatInterval * 3
                 THEN handleDisconnection([S EXCEPT !.ws[c] = "closing"], c)
                 ELSE S
       IN sweepLoopLenient(S1, todo \ {c}, t)

\* the body of the setInterval callback of startHeartbeat at time t
RECURSIVE sweepLoop(_, _, _)
sweepLoop(S, todo, t) ==
  IF todo = {} THEN S
  ELSE LET c == CHOOSE x \in todo : \A y \in todo : x <= y
           S1 == IF t - S.clients[c].lastSeen > heartbeatInterval * 2
                 THEN handleDisconnection([S EXCEPT !.ws[c] = "closing"], c)
                 ELSE S
       IN sweepLoop(S1, todo \ {c}, t)

\* a sweep that terminates the sockets of the silent connections and leaves
\* the registry and the index as they are
heartbeatSweepTerminatesOnly(S, t) ==
  [S EXCEPT !.ws = [c \in DOMAIN S.ws |->
     IF c \in DOMAIN S.clients /\ t - S.clients[c].lastSeen > heartbeatInterval * 2
     THEN "closing" ELSE S.ws[c]]]

heartbeatSweep(S, t) == sweepLoop(S, DOMAIN S.clients, t)


\* ============================================================== the client
\* the client's state as a record; wrote: the frames the running handler has
\* written to sockets so far, in order
Cli == [ws |-> ws, sock |-> sock, reconnectAttempts |-> reconnectAttempts,
        isReconnecting |-> isReconnecting, messageQueue |-> messageQueue,
        hbLive |-> hbLive, hbCur |-> hbCur, ptLive |-> ptLive, ptCur |-> ptCur,
        sleepers |-> sleepers, waiter |-> waiter, fatal |-> fatal, lost |-> lost,
        userClosed |-> userClosed, subscriptions |-> cliSubs, notified |-> notified,
        cache |-> cache, listeners |-> listeners, gets |-> gets,
        wrote |-> <<>>, called |-> 0, saw |-> None, returned |-> None, requested |-> FALSE]

NoWaiter == [via |-> "none", sub |-> NoRes]

\* isConnected()
isConnected(T) == IF T.ws = 0 THEN FALSE ELSE T.sock[T.ws] = "open"

\* new WebSocket(url): the next socket
HasFresh(T) == \E s \in Socks : T.sock[s] = "none"
FreshSock(T) == CHOOSE s \in Socks : T.sock[s] = "none" /\ \A u \in Socks : u < s => T.sock[u] # "none"

RECURSIVE Pow2(_)
Pow2(n) == IF n <= 0 THEN 1 ELSE 2 * Pow2(n - 1)
Min(a, b) == IF a < b THEN a ELSE b

\* Math.min(this.reconnectDelay * Math.pow(2, this.reconnectAttempts - 1), 30000)
backoffDelay(attempts) == Min(reconnectDelay * Pow2(attempts - 1), reconnectDelayCap)

\* ws.send(JSON.stringify(message)) on the current socket
wsSend(T, m) == [T EXCEPT !.wrote = Append(@, [s |-> T.ws, frame |-> Stringify(m)])]

\* EAMPClient.subscribe after `await this.wsTransport.send(...)`: this.subscriptions.add;
\* r is NoRes when no subscribe() call is waiting
subscribed(T, r) == IF r = NoRes THEN T ELSE [T EXCEPT !.subscriptions = @ \cup {r}]

\* reconnect() up to its sleep; sub: the subscribe() call that awaits it through send()
reconnect(T, sub) ==
  IF T.isReconnecting \/ T.reconnectAttempts >= maxReconnectAttempts
  THEN subscribed(T, sub)
  ELSE [T EXCEPT !.isReconnecting = TRUE,
                 !.reconnectAttempts = @ + 1,
                 !.sleepers = Append(@, [delay |-> backoffDelay(T.reconnectAttempts + 1),
                                         sub |-> sub])]

\* a send that swallows the failure of the socket write, so that its caller goes on
sendSwallowsFailure(T, m, sub, throws) ==
  IF ~isConnected(T)
  THEN LET T1 == [T EXCEPT !.messageQueue = Append(@, m)]
       IN IF ~T1.isReconnecting THEN reconnect(T1, sub) ELSE subscribed(T1, sub)
  ELSE IF throws THEN subscribed(T, sub)
  ELSE subscribed(wsSend(T, m), sub)

\* send(message); throws: the socket write throws
send(T, m, sub, throws) ==
  IF ~isConnected(T)
  THEN LET T1 == [T EXCEPT !.messageQueue = Append(@, m)]
       IN IF ~T1.isReconnecting THEN reconnect(T1, sub) ELSE subscribed(T1, sub)
  ELSE IF throws THEN T
  ELSE subscribed(wsSend(T, m), sub)

\* the caller of connect() continues after the promise resolved
resolved(T, w, throws) ==
  CASE w.via = "subscribe" ->
         send(T, [action |-> "subscribe", resourceId |-> w.sub], w.sub, throws)
    [] w.via = "reconnect" -> subscribed(T, w.sub)
    [] OTHER -> T

\* the caller of connect() continues after the promise rejected: subscribe() throws,
\* reconnect() runs its catch block and returns
rejected(T, w) ==
  CASE w.via = "reconnect" ->
         IF T.reconnectAttempts >= maxReconnectAttempts
         THEN subscribed([T EXCEPT !.isReconnecting = FALSE, !.fatal = TRUE], w.sub)
         ELSE subscribed(reconnect(T, NoRes), w.sub)
    [] OTHER -> T

\* connect(), called by w
connect(T, w, throws) ==
  IF isConnected(T) THEN resolved(T, w, throws)
  ELSE LET s == FreshSock(T)
       IN [T EXCEPT !.ws = s, !.sock[s] = "connecting", !.waiter[s] = w]

\* a flush that drops the message whose write throws
RECURSIVE flushDropsFailed(_, _)
flushDropsFailed(T, failAt) ==
  IF T.messageQueue = <<>> \/ ~isConnected(T) THEN T
  ELSE IF failAt = 0 THEN [T EXCEPT !.messageQueue = Tail(@)]
  ELSE flushDropsFailed([wsSend(T, Head(T.messageQueue)) EXCEPT !.messageQueue = Tail(@)],
                        failAt - 1)

\* flushMessageQueue(); failAt: the number of writes that succeed before one throws
RECURSIVE flushMessageQueue(_, _)
flushMessageQueue(T, failAt) ==
  IF T.messageQueue = <<>> \/ ~isConnected(T) THEN T
  ELSE IF failAt = 0 THEN T
  ELSE flushMessageQueue([wsSend(T, Head(T.messageQueue)) EXCEPT !.messageQueue = Tail(@)],
                         failAt - 1)

\* startHeartbeat(): arms an interval timer and overwrites the handle
startHeartbeat(T) == [T EXCEPT !.hbLive = @ + 1, !.hbCur = TRUE]

\* resetHeartbeatTimeout()
resetHeartbeatTimeout(T) ==
  [T EXCEPT !.ptLive = IF T.ptCur THEN @ - 1 ELSE @, !.ptCur = FALSE]

\* stopHeartbeat()
stopHeartbeat(T) ==
  resetHeartbeatTimeout([T EXCEPT !.hbLive = IF T.hbCur THEN @ - 1 ELSE @, !.hbCur = FALSE])

\* ws.on('open') of connect(), on socket s
\* up to this.emit('connected')
opened(T, s, failAt) ==
  LET T1 == [T EXCEPT !.sock[s] = "open", !.reconnectAttempts = 0,
                      !.isReconnecting = FALSE, !.lost = FALSE, !.waiter[s] = NoWaiter]
  IN flushMessageQueue(startHeartbeat(T1), failAt)

\* with resolve(): the caller of connect() continues
onOpen(T, s, failAt, throws) == resolved(opened(T, s, failAt), T.waiter[s], throws)

\* ws.on('close') of setupEventHandlers, on socket s
onClose(T, s, code) ==
  LET T1 == stopHeartbeat([T EXCEPT !.sock[s] = "closed",
                                    !.lost = @ \/ code # NormalClosure])
  IN IF code # NormalClosure /\ ~T1.isReconnecting
        /\ T1.reconnectAttempts < maxReconnectAttempts
     THEN reconnect(T1, NoRes)
     ELSE T1

\* a socket that never opened: 'error', then 'close' with 1006, then the caller of
\* connect() sees the rejection
onConnectError(T, s) ==
  rejected([onClose(T, s, AbnormalClosure) EXCEPT !.waiter[s] = NoWaiter], T.waiter[s])

\* ws.close(code) on the current socket, if there is one; how: the state a socket
\* that was OPEN is left in until its 'close' event
wsClose(T, how) ==
  IF T.ws = 0 THEN T
  ELSE [T EXCEPT !.sock[T.ws] = CASE @ = "open" -> how
                                  [] @ = "connecting" -> "aborting"
                                  [] OTHER -> @]

\* WebSocketTransport.disconnect()
disconnect(T) ==
  [wsClose(stopHeartbeat(T), "closing") EXCEPT
     !.ws = 0, !.messageQueue = <<>>, !.isReconnecting = FALSE,
     !.reconnectAttempts = 0, !.lost = FALSE, !.userClosed = TRUE]

\* the setInterval callback of startHeartbeat
heartbeatTick(T) ==
  IF isConnected(T)
  THEN [wsSend(T, [type |-> "ping"]) EXCEPT !.ptLive = @ + 1, !.ptCur = TRUE]
  ELSE T

\* the setTimeout callback of startHeartbeat; cur: it is the timeout the handle names
heartbeatTimeout(T, cur) ==
  wsClose([T EXCEPT !.ptLive = @ - 1, !.ptCur = IF cur THEN FALSE ELSE @], "timedout")

\* ws.on('message') of setupEventHandlers, then EAMPClient's 'message' listener
\* MemoryCache.get(key): the cache after the call and the value returned
cacheGet(C, r) ==
  IF r \notin DOMAIN C THEN [cache |-> C, value |-> None]
  ELSE IF C[r].age > cacheTTL THEN [cache |-> MapDelete(C, r), value |-> None]
  ELSE [cache |-> C, value |-> C[r].value]

\* MemoryCache.set(key, value)
cacheSet(C, r, v) == MapSet(C, r, [value |-> v, age |-> 0])

\* EAMPMetadataSchema.parse(metadata): throws on an object that is no metadata
SchemaOk(md) == md \in Payloads
SchemaParse(md) == md

\* this.emit('metadataUpdated', update) with the listeners F throwing: the
\* emitter calls the listeners in registration order and has no try/catch, so
\* the first one that throws ends the loop; each listener called reads the
\* cache entry of the update's resourceId
emit(T, r, F) ==
  LET first == IF F = {} THEN T.listeners ELSE CHOOSE k \in F : \A j \in F : k <= j
  IN [T EXCEPT !.called = first,
               !.saw = IF first > 0 THEN cacheGet(T.cache, r).value ELSE None]

\* a message handler that notifies the listeners before it updates the cache
onMessageEmitsFirst(T, data, F) ==
  IF ~ParseOk(data) THEN T
  ELSE LET m == Parse(data)
           r == Prop(m, "resourceId")
           md == Prop(m, "metadata")
       IN CASE Prop(m, "type") = "pong" -> resetHeartbeatTimeout(T)
            [] Prop(m, "type") = "metadata_updated" ->
                 IF md # "undefined" /\ ~SchemaOk(md) THEN T
                 ELSE LET T1 == emit([T EXCEPT !.notified = @ \cup
                                        {[resourceId |-> r,
                                          timestamp |-> Prop(m, "timestamp")]}], r, F)
                      IN IF cacheEnabled /\ md # "undefined"
                         THEN [T1 EXCEPT !.cache = cacheSet(@, r, SchemaParse(md))]
                         ELSE T1
            [] OTHER -> T

\* ws.onmessage of the transport and the 'message' handler of EAMPClient;
\* F: the listeners of 'metadataUpdated' that throw
onMessage(T, data, F) ==
  IF ~ParseOk(data) THEN T
  ELSE LET m == Parse(data)
           r == Prop(m, "resourceId")
           md == Prop(m, "metadata")
       IN CASE Prop(m, "type") = "pong" -> resetHeartbeatTimeout(T)
            [] Prop(m, "type") = "metadata_updated" ->
                 IF md # "undefined" /\ ~SchemaOk(md) THEN T
                 ELSE LET T1 == IF cacheEnabled /\ md # "undefined"
                                THEN [T EXCEPT !.cache = cacheSet(@, r, SchemaParse(md))]
                                ELSE T
                      IN emit([T1 EXCEPT !.notified = @ \cup
                                 {[resourceId |-> r, timestamp |-> Prop(m, "timestamp")]}],
                              r, F)
            [] OTHER -> T

\* a getMetadata that never looks into the cache
getMetadataNoCache(T, r) ==
  [T EXCEPT !.gets = Append(@, r), !.requested = TRUE]

\* EAMPClient.getMetadata(resourceId) up to its first await: a cache hit
\* returns, a miss issues the HTTP GET
getMetadata(T, r) ==
  LET g == cacheGet(T.cache, r)
  IN IF cacheEnabled /\ g.value # None
     THEN [T EXCEPT !.cache = g.cache, !.returned = g.value]
     ELSE [T EXCEPT !.cache = g.cache, !.gets = Append(@, r), !.requested = TRUE]

\* the response of the i-th pending GET arrives; res: the metadata of a 200
\* response that passes the schema, or None for any failure (getMetadata throws)
response(T, i, res) ==
  LET r == T.gets[i]
      T1 == [T EXCEPT !.gets = SubSeq(@, 1, i - 1) \o SubSeq(@, i + 1, Len(@))]
  IN IF res = None THEN T1
     ELSE [T1 EXCEPT !.cache = IF cacheEnabled THEN cacheSet(@, r, res) ELSE @,
                     !.returned = res]

\* EAMPClient.refreshMetadata(resourceId) up to its first await
refreshMetadata(T, r) ==
  getMetadata([T EXCEPT !.cache = IF r \in DOMAIN @ THEN MapDelete(@, r) ELSE @], r)

\* EAMPClient.clearCache()
clearCache(T) == [T EXCEPT !.cache = <<>>]

\* MemoryCache.cleanup(), the setInterval callback of startCleanup
cleanup(T) ==
  [T EXCEPT !.cache = [r \in {q \in DOMAIN @ : @[q].age <= cacheTTL} |-> @[r]]]

\* the unsubscribe() calls of unsubscribeAll() over ids, in the set's order;
\* F: the ids whose socket write throws
RECURSIVE unsubscribeLoop(_, _, _)
unsubscribeLoop(T, ids, F) ==
  IF ids = {} THEN T
  ELSE LET r == CHOOSE x \in ids : TRUE
           T1 == IF ~isConnected(T) THEN [T EXCEPT !.subscriptions = @ \ {r}]
                 ELSE IF r \in F THEN T
                 ELSE [wsSend(T, [action |-> "unsubscribe", resourceId |-> r])
                         EXCEPT !.subscriptions = @ \ {r}]
       IN unsubscribeLoop(T1, ids \ {r}, F)

\* EAMPClient.unsubscribe(resourceId)
unsubscribe(T, r, throws) ==
  IF r \notin T.subscriptions THEN T
  ELSE unsubscribeLoop(T, {r}, IF throws THEN {r} ELSE {})

\* EAMPClient.disconnect(): unsubscribeAll(), then the transport's disconnect()
\* unless an unsubscribe rejected
clientDisconnect(T, F) ==
  LET T1 == unsubscribeLoop(T, T.subscriptions, F)
  IN IF isConnected(T) /\ F # {} THEN T1 ELSE [disconnect(T1) EXCEPT !.listeners = 0]

\* EAMPClient.subscribe(resourceId)
subscribe(T, r, throws) ==
  IF r \in T.subscriptions THEN T
  ELSE connect([T EXCEPT !.userClosed = FALSE], [via |-> "subscribe", sub |-> r], throws)

\* ------------------------------------------------------------ HttpTransport
\* no request() call has been made
NoRequest == [phase |-> "idle", retryAttempts |-> 0, attempt |-> 0, calls |-> 0,
              errors |-> <<>>, delay |-> 0, thrown |-> None]

\* the error codes makeRequest can throw with (NetworkError, a plain
\* EAMPClientError) and the two that request() does not retry
ErrorCodes == {"NETWORK_ERROR", "EAMP_ERROR", "RESOURCE_NOT_FOUND", "VALIDATION_ERROR"}
NotRetried == {"RESOURCE_NOT_FOUND", "VALIDATION_ERROR"}

\* request(method, path, body) up to its first await, with options.retryAttempts = n
request(n) ==
  IF 0 <= n
  THEN [NoRequest EXCEPT !.phase = "calling", !.retryAttempts = n, !.calls = 1]
  ELSE [NoRequest EXCEPT !.phase = "threw", !.retryAttempts = n]

\* a request() that goes on after an error it should rethrow
makeRequestDoneRetriesAll(H, outcome) ==
  IF outcome = "response" THEN [H EXCEPT !.phase = "returned"]
  ELSE LET H1 == [H EXCEPT !.errors = Append(@, outcome)]
       IN IF H.attempt = H.retryAttempts
          THEN [H1 EXCEPT !.phase = "threw", !.thrown = outcome]
          ELSE [H1 EXCEPT !.phase = "sleeping",
                          !.delay = Min(retryDelay * Pow2(H.attempt), retryDelayCap)]

\* the awaited makeRequest settles: with a response, or throwing an error with code outcome
makeRequestDone(H, outcome) ==
  IF outcome = "response" THEN [H EXCEPT !.phase = "returned"]
  ELSE LET H1 == [H EXCEPT !.errors = Append(@, outcome)]
       IN IF outcome \in NotRetried
          THEN [H1 EXCEPT !.phase = "threw", !.thrown = outcome]
          ELSE IF H.attempt = H.retryAttempts
          THEN [H1 EXCEPT !.phase = "threw", !.thrown = outcome]
          ELSE [H1 EXCEPT !.phase = "sleeping",
                          !.delay = Min(retryDelay * Pow2(H.attempt), retryDelayCap)]

\* the backoff sleep ends: attempt++, the loop condition, the next makeRequest
retrySleepDone(H) ==
  IF H.attempt + 1 <= H.retryAttempts
  THEN [H EXCEPT !.phase = "calling", !.attempt = @ + 1, !.calls = @ + 1, !.delay = 0]
  ELSE [H EXCEPT !.phase = "threw", !.attempt = @ + 1, !.delay = 0,
                 !.thrown = H.errors[Len(H.errors)]]

\* ------------------------------------------------------------------- Init
\* served: the transport's url is this server's /ws endpoint (otherwise two
\* independent programs: the server with raw peers, the SDK with any peer)
Fresh(isServed) ==
  /\ served = isServed
  /\ clients = <<>>
  /\ subscriptions = <<>>
  /\ srvWs = [c \in Conns |-> "none"]
  /\ sweepIn = heartbeatInterval
  /\ db = {}
  /\ published = 0
  /\ outbox = [c \in Conns |-> <<>>]
  /\ lastOp = Other
  /\ ws = 0
  /\ sock = [s \in Socks |-> "none"]
  /\ reconnectAttempts = 0
  /\ isReconnecting = FALSE
  /\ messageQueue = <<>>
  /\ hbLive = 0
  /\ hbCur = FALSE
  /\ ptLive = 0
  /\ ptCur = FALSE
  /\ sleepers = <<>>
  /\ waiter = [s \in Socks |-> NoWaiter]
  /\ fatal = FALSE
  /\ lost = FALSE
  /\ userClosed = FALSE
  /\ cliSubs = {}
  /\ notified = {}
  /\ cache = <<>>
  /\ listeners = 0
  /\ gets = <<>>
  /\ http = NoRequest
  /\ provSubs = <<>>
  /\ provSets = <<>>
  /\ handles = <<>>
  /\ provSent = <<>>
  /\ c2s = [s \in Conns |-> <<>>]
  /\ s2c = [s \in Conns |-> <<>>]

Init == Fresh(FALSE)

SetReg(S) ==
  /\ clients' = S.clients
  /\ subscriptions' = S.subscriptions
  /\ srvWs' = S.ws

SetSrv(S) == SetReg(S) /\ UNCHANGED srvAux

\* frames a peer that talks to the server directly (README "WebSocket Usage") may send
RawFrames ==
  {Stringify([type |-> "ping"]), Stringify([type |-> "bogus"]), [json |-> FALSE]}
  \cup {Stringify([type |-> t, resourceId |-> r]) : t \in {"subscribe", "unsubscribe"},
                                                    r \in Resources}

\* the connections of peers that talk to the server directly; the others are
\* the sockets of the SDK transport when it is connected to this server
RawConns == IF served THEN Conns \ Socks ELSE Conns

\* frames the server wrote to sockets of the SDK transport travel to it
RECURSIVE MsgsTo(_, _)
MsgsTo(wrote, c) ==
  IF wrote = <<>> THEN <<>>
  ELSE IF Head(wrote).to = c THEN <<Stringify(Head(wrote).msg)>> \o MsgsTo(Tail(wrote), c)
  ELSE MsgsTo(Tail(wrote), c)

Deliver(wrote) ==
  IF served THEN [c \in Conns |-> IF c \in Socks THEN s2c[c] \o MsgsTo(wrote, c) ELSE s2c[c]]
  ELSE s2c

\* index[r], empty when the index has no entry for r
Indexed(r) == IF r \in DOMAIN subscriptions THEN subscriptions[r] ELSE {}

\* the connections among cs that sendToClient writes to
Writable(cs) == {c \in cs : c \in DOMAIN clients /\ srvWs[c] = "open"}

\* wss 'connection' event: the next connection arrives
SrvConnect(c) ==
  /\ c \in RawConns
  /\ srvWs[c] = "none"
  /\ \A d \in RawConns : d < c => srvWs[d] # "none"
  /\ \E throws \in BOOLEAN :
       /\ SetSrv(handleConnection(Srv, c, Now, throws))
       /\ lastOp' = IF Cardinality(DOMAIN clients) >= maxConnections
                    THEN [op |-> "rejected"] ELSE Other
  /\ UNCHANGED <<sweepIn, cliVars, netVars>>

\* what a 'message' event leaves in lastOp: the case of handleMessage it took
MessageOp(c, data, throws) ==
  LET ty == IF ParseOk(data) THEN Prop(Parse(data), "type") ELSE "undefined"
      r == IF ParseOk(data) THEN Prop(Parse(data), "resourceId") ELSE "undefined"
  IN CASE ty = "ping" -> [op |-> "ping", throws |-> throws]
       [] ty = "unsubscribe" /\ c \in Indexed(r) ->
            [op |-> "unsubscribed", last |-> Indexed(r) = {c}]
       [] ty = "subscribe" /\ c \in Indexed(r) ->
            [op |-> "resubscribed", throws |-> throws]
       [] ty \notin {"ping", "subscribe", "unsubscribe"} ->
            [op |-> "protocolError", throws |-> throws, json |-> ParseOk(data)]
       [] OTHER -> Other

\* ws 'message' event on connection c with payload data
SrvFrame(c, data, throws) ==
  /\ c \in RawConns
  /\ srvWs[c] = "open"
  /\ SetSrv(handleMessage(Srv, c, data, Now, throws))
  /\ lastOp' = MessageOp(c, data, throws)
  /\ UNCHANGED <<sweepIn, cliVars, netVars>>

\* ws 'message' event on connection c
SrvMessage(c) ==
  \E data \in RawFrames, throws \in BOOLEAN : SrvFrame(c, data, throws)

\* ws 'pong' event on connection c
SrvPong(c) ==
  /\ srvWs[c] = "open"
  /\ clients' = IF c \in DOMAIN clients THEN [clients EXCEPT ![c].lastSeen = Now] ELSE clients
  /\ lastOp' = Other
  /\ UNCHANGED <<subscriptions, srvWs, sweepIn, srvAux, cliVars, netVars>>

\* the peer goes away: the socket leaves OPEN, its 'close' event is still to come
SrvPeerClosing(c) ==
  /\ srvWs[c] = "open"
  /\ srvWs' = [srvWs EXCEPT ![c] = "closing"]
  /\ lastOp' = Other
  /\ UNCHANGED <<clients, subscriptions, sweepIn, srvAux, cliVars, netVars>>

\* ws 'error' event on connection c
SrvError(c) ==
  /\ srvWs[c] \in {"open", "closing"}
  /\ SetSrv([handleDisconnection(Srv, c) EXCEPT !.ws[c] = "closing"])
  /\ lastOp' = Other
  /\ UNCHANGED <<sweepIn, cliVars, netVars>>

\* ws 'close' event on connection c
SrvClose(c) ==
  /\ srvWs[c] = "closing"
  /\ SetSrv([handleDisconnection(Srv, c) EXCEPT !.ws[c] = "closed"])
  /\ lastOp' = IF c \in DOMAIN clients THEN Other ELSE [op |-> "closedAgain"]
  /\ UNCHANGED <<sweepIn, cliVars, netVars>>

\* a change producer calls broadcastMetadataUpdate
Publish ==
  /\ \E r \in Resources, F \in SUBSET Conns :
       /\ F \subseteq Writable(IF r \in DOMAIN subscriptions THEN subscriptions[r] ELSE {})
       /\ LET update == [type |-> "metadata_updated", resourceId |-> r, timestamp |-> Now]
              S2 == broadcastMetadataUpdate(Srv, update, F)
          IN /\ SetSrv(S2)
             /\ lastOp' = [op |-> "publish", update |-> update, F |-> F,
                           wrote |-> S2.wrote]
             /\ s2c' = Deliver(S2.wrote)
  /\ UNCHANGED <<sweepIn, cliVars, c2s, served>>

\* TickMs of time pass; the sweep timer fires when it is due, before time moves on
Tick ==
  /\ sweepIn > 0
  /\ sweepIn' = sweepIn - TickMs
  /\ clients' = [c \in DOMAIN clients |-> [clients[c] EXCEPT !.lastSeen = Older(@)]]
  /\ lastOp' = Other
  /\ UNCHANGED <<subscriptions, srvWs, srvAux, cliVars, netVars>>

\* the setInterval callback of startHeartbeat
Sweep ==
  /\ sweepIn <= 0
  /\ SetSrv(heartbeatSweep(Srv, Now))
  /\ sweepIn' = heartbeatInterval
  /\ lastOp' = [op |-> "sweep", terminated |-> DOMAIN clients \ DOMAIN clients']
  /\ UNCHANGED <<cliVars, netVars>>

NextServer ==
  \/ \E c \in Conns : SrvConnect(c)
  \/ \E c \in Conns : SrvMessage(c)
  \/ \E c \in Conns : SrvPong(c)
  \/ \E c \in Conns : SrvPeerClosing(c)
  \/ \E c \in Conns : SrvError(c)
  \/ \E c \in Conns : SrvClose(c)
  \/ Publish
  \/ Tick
  \/ Sweep

SpecServer == Init /\ [][NextServer]_vars


\* ------------------------------------------------------- client actions
\* the frames of wrote that went to socket s, in order
RECURSIVE FramesTo(_, _)
FramesTo(wrote, s) ==
  IF wrote = <<>> THEN <<>>
  ELSE IF Head(wrote).s = s THEN <<Head(wrote).frame>> \o FramesTo(Tail(wrote), s)
  ELSE FramesTo(Tail(wrote), s)

SetCli(T) ==
  /\ ws' = T.ws
  /\ sock' = T.sock
  /\ reconnectAttempts' = T.reconnectAttempts
  /\ isReconnecting' = T.isReconnecting
  /\ messageQueue' = T.messageQueue
  /\ hbLive' = T.hbLive
  /\ hbCur' = T.hbCur
  /\ ptLive' = T.ptLive
  /\ ptCur' = T.ptCur
  /\ sleepers' = T.sleepers
  /\ waiter' = T.waiter
  /\ fatal' = T.fatal
  /\ lost' = T.lost
  /\ userClosed' = T.userClosed
  /\ cliSubs' = T.subscriptions
  /\ notified' = T.notified
  /\ cache' = T.cache
  /\ listeners' = T.listeners
  /\ gets' = T.gets
  /\ c2s' = IF served THEN [s \in Conns |-> c2s[s] \o FramesTo(T.wrote, s)] ELSE c2s
  /\ served' = served
  /\ UNCHANGED <<http, provVars>>

\* the current socket can take another frame (bounds the frames in transit)
Room == IF ws = 0 THEN TRUE ELSE Len(c2s[ws]) < MaxInFlight

\* the application calls EAMPClient.subscribe(r)
Subscribe(r) ==
  /\ r \notin cliSubs
  /\ IF isConnected(Cli) THEN TRUE ELSE HasFresh(Cli)
  /\ Room
  /\ \E throws \in (IF isConnected(Cli) THEN BOOLEAN ELSE {FALSE}) :
       SetCli(subscribe(Cli, r, throws))
  /\ lastOp' = Other
  /\ UNCHANGED <<srvVars, s2c>>

\* the application calls EAMPClient.unsubscribe(r)
Unsubscribe(r) ==
  /\ r \in cliSubs
  /\ Room
  /\ \E throws \in (IF isConnected(Cli) THEN BOOLEAN ELSE {FALSE}) :
       SetCli(unsubscribe(Cli, r, throws))
  /\ lastOp' = Other
  /\ UNCHANGED <<srvVars, s2c>>

\* the application calls EAMPClient.disconnect()
Disconnect ==
  /\ IF ws = 0 THEN TRUE ELSE Len(c2s[ws]) + Cardinality(cliSubs) <= MaxInFlight
  /\ \E F \in (IF isConnected(Cli) THEN SUBSET cliSubs ELSE {{}}) :
       SetCli(clientDisconnect(Cli, F))
  /\ lastOp' = Other
  /\ UNCHANGED <<srvVars, s2c>>

\* the backoff sleep of the i-th sleeping reconnect() ends: await this.connect()
SleepDone(i) ==
  /\ i \in DOMAIN sleepers
  /\ IF isConnected(Cli) THEN TRUE ELSE HasFresh(Cli)
  /\ LET T == [Cli EXCEPT !.sleepers = SubSeq(@, 1, i - 1) \o SubSeq(@, i + 1, Len(@))]
     IN SetCli(connect(T, [via |-> "reconnect", sub |-> sleepers[i].sub], FALSE))
  /\ lastOp' = Other
  /\ UNCHANGED <<srvVars, s2c>>

\* 'open' event of socket s
SockOpen(s) ==
  /\ sock[s] = "connecting"
  /\ served => srvWs[s] # "none"
  /\ \E failAt \in 0..Len(messageQueue), throws \in BOOLEAN :
       LET T2 == onOpen(Cli, s, failAt, throws)
       IN /\ SetCli(T2)
          /\ lastOp' = [op |-> "open", lost |-> lost, subs |-> cliSubs,
                        wrote |-> FramesTo(T2.wrote, s), queue |-> messageQueue,
                        failAt |-> failAt,
                        flushed |-> FramesTo(opened(Cli, s, failAt).wrote, T2.ws),
                        sent |-> [i \in DOMAIN T2.wrote |-> T2.wrote[i].frame]]
  /\ UNCHANGED <<srvVars, s2c>>

\* 'error' and 'close' events of a socket s that never opened
SockConnectFail(s) ==
  /\ sock[s] \in {"connecting", "aborting"}
  /\ LET T2 == onConnectError(Cli, s)
     IN /\ SetCli(T2)
        /\ lastOp' = [op |-> "close", code |-> AbnormalClosure, opened |-> FALSE,
                      via |-> waiter[s].via, attempts |-> reconnectAttempts,
                      started |-> Len(T2.sleepers) > Len(sleepers)]
  /\ UNCHANGED <<srvVars, s2c>>

\* the close codes a 'close' event of socket s may carry: the peer's or the
\* network's for an OPEN socket, the requested one or 1006 (no close frame came
\* back) for a socket this side closed
CloseCodes(s) ==
  CASE sock[s] = "open" -> {NormalClosure, GoingAway, AbnormalClosure}
    [] sock[s] = "closing" -> {NormalClosure, AbnormalClosure}
    [] sock[s] = "timedout" -> {GoingAway, AbnormalClosure}
    [] OTHER -> {}

\* 'close' event of a socket s that had opened
SockClose(s) ==
  /\ \E code \in CloseCodes(s) :
       LET T2 == onClose(Cli, s, code)
       IN /\ SetCli(T2)
          /\ lastOp' = [op |-> "close", code |-> code, opened |-> TRUE,
                        via |-> "none", attempts |-> reconnectAttempts,
                        started |-> Len(T2.sleepers) > Len(sleepers)]
  /\ UNCHANGED <<srvVars, s2c>>

\* 'message' event of socket s
SockMessage(s) ==
  /\ sock[s] = "open"
  /\ s2c[s] # <<>>
  /\ \E F \in SUBSET (1..listeners) : SetCli(onMessage(Cli, Head(s2c[s]), F))
  /\ s2c' = [s2c EXCEPT ![s] = Tail(@)]
  /\ lastOp' = Other
  /\ UNCHANGED srvVars

\* a heartbeat interval timer fires (its previous pong timeout is over by then)
HeartbeatTick ==
  /\ hbLive > 0
  /\ ptLive < hbLive
  /\ Room
  /\ SetCli(heartbeatTick(Cli))
  /\ lastOp' = Other
  /\ UNCHANGED <<srvVars, s2c>>

\* a pong timeout fires
HeartbeatTimeout ==
  /\ \E cur \in BOOLEAN :
       /\ IF cur THEN ptCur ELSE ptLive > (IF ptCur THEN 1 ELSE 0)
       /\ SetCli(heartbeatTimeout(Cli, cur))
  /\ lastOp' = [op |-> "pongTimeout"]
  /\ UNCHANGED <<srvVars, s2c>>

\* frames a peer other than this repository's server may deliver
PeerFrames ==
  {Stringify([type |-> "pong"]), [json |-> FALSE]}
  \cup {Stringify([type |-> "metadata_updated", resourceId |-> r, timestamp |-> Now])
          : r \in Resources}

\* 'message' event of socket s carrying a frame of such a peer
PeerMessage(s) ==
  /\ ~served
  /\ sock[s] = "open"
  /\ \E f \in PeerFrames, F \in SUBSET (1..listeners) :
       /\ SetCli(onMessage(Cli, f, F))
       /\ lastOp' = CASE f = Stringify([type |-> "pong"]) ->
                            [op |-> "pong", current |-> s = ws, armed |-> ptLive,
                             left |-> ptLive']
                      [] ParseOk(f) /\ Prop(Parse(f), "type") = "metadata_updated" ->
                            [op |-> "update", resourceId |-> Prop(Parse(f), "resourceId")]
                      [] OTHER -> Other
  /\ UNCHANGED <<srvVars, s2c>>

NextClient ==
  \/ \E r \in Resources : Subscribe(r)
  \/ \E r \in Resources : Unsubscribe(r)
  \/ Disconnect
  \/ \E i \in 1..MaxSockets : SleepDone(i)
  \/ \E s \in Socks : SockOpen(s)
  \/ \E s \in Socks : SockConnectFail(s)
  \/ \E s \in Socks : SockClose(s)
  \/ \E s \in Socks : PeerMessage(s)
  \/ HeartbeatTick
  \/ HeartbeatTimeout

SpecClient == Init /\ [][NextClient]_vars



\* ------------------------------- the transport used through its public API
\* the messages an application passes to send()
QueueMsgs == {[action |-> "subscribe", resourceId |-> r] : r \in Resources}

\* the application calls WebSocketTransport.send(m)
TransportSend ==
  /\ Len(messageQueue) < MaxQueue
  /\ Len(sleepers) < MaxSockets
  /\ IF isConnected(Cli) THEN TRUE ELSE HasFresh(Cli)
  /\ \E m \in QueueMsgs, throws \in (IF isConnected(Cli) THEN BOOLEAN ELSE {FALSE}) :
       LET T2 == send([Cli EXCEPT !.userClosed = FALSE], m, NoRes, throws)
       IN /\ SetCli(T2)
          /\ lastOp' = [op |-> "send", m |-> m, connected |-> isConnected(Cli),
                        throws |-> throws, wrote |-> T2.wrote]
  /\ UNCHANGED <<srvVars, s2c>>

\* the application calls WebSocketTransport.connect()
TransportConnect ==
  /\ IF isConnected(Cli) THEN TRUE ELSE HasFresh(Cli)
  /\ SetCli(connect([Cli EXCEPT !.userClosed = FALSE],
                    [via |-> "connect", sub |-> NoRes], FALSE))
  /\ lastOp' = Other
  /\ UNCHANGED <<srvVars, s2c>>

\* the application calls WebSocketTransport.disconnect()
TransportDisconnect ==
  /\ SetCli(disconnect(Cli))
  /\ lastOp' = Other
  /\ UNCHANGED <<srvVars, s2c>>

NextTransport ==
  \/ TransportSend
  \/ TransportConnect
  \/ TransportDisconnect
  \/ \E i \in 1..MaxSockets : SleepDone(i)
  \/ \E s \in Socks : SockOpen(s)
  \/ \E s \in Socks : SockConnectFail(s)
  \/ \E s \in Socks : SockClose(s)

SpecTransport == Init /\ [][NextTransport]_vars

\* ------------------------------------------------- HTTP metadata routes
\* the handler of one route of createMetadataRoutes(db) for resourceId r;
\* dbFails: the database call rejects. The routes hold only db: the result is
\* the database after the request and the response status
routeHandler(D, method, r, dbFails) ==
  CASE dbFails -> [db |-> D, status |-> 500]
    [] method = "POST" ->
         IF r \in D THEN [db |-> D, status |-> 409] ELSE [db |-> D \cup {r}, status |-> 201]
    [] method \in {"PUT", "PATCH"} ->
         IF r \in D THEN [db |-> D, status |-> 200] ELSE [db |-> D, status |-> 404]
    [] OTHER ->
         IF r \in D THEN [db |-> D \ {r}, status |-> 204] ELSE [db |-> D, status |-> 404]

Methods == {"POST", "PUT", "PATCH", "DELETE"}

\* an HTTP request to a metadata route is handled; wrote: the frames the
\* handler had written to sockets (it holds no WebSocketManager)
Route(method, r) ==
  /\ \E dbFails \in BOOLEAN :
       LET res == routeHandler(db, method, r, dbFails)
       IN /\ db' = res.db
          /\ lastOp' = [op |-> "route", method |-> method, resourceId |-> r,
                        status |-> res.status, wrote |-> <<>>]
  /\ UNCHANGED <<clients, subscriptions, srvWs, sweepIn, published, outbox, cliVars, netVars>>

NextRoutes ==
  \/ \E c \in Conns : SrvConnect(c)
  \/ \E c \in Conns : SrvMessage(c)
  \/ \E c \in Conns : SrvPeerClosing(c)
  \/ \E c \in Conns : SrvClose(c)
  \/ \E m \in Methods, r \in Resources : Route(m, r)
  \/ Publish

SpecRoutes == Init /\ [][NextRoutes]_vars

\* ------------------------------------------------- a numbered series of events
\* a socket write stream that puts each new frame in front of the earlier ones
socketSendLifo(out, wrote, n) ==
  [c \in Conns |-> IF \E i \in DOMAIN wrote : wrote[i].to = c THEN <<n>> \o out[c] ELSE out[c]]

\* client.ws.send for the frames of event n in wrote: each goes to the end of
\* what its socket has been given so far
socketSend(out, wrote, n) ==
  [c \in Conns |-> IF \E i \in DOMAIN wrote : wrote[i].to = c THEN Append(out[c], n) ELSE out[c]]

\* a change producer calls broadcastMetadataUpdate with the next event of the series
PublishNumbered ==
  /\ published < MaxEvents
  /\ \E r \in Resources, F \in SUBSET Conns :
       /\ F \subseteq Writable(Indexed(r))
       /\ LET update == [type |-> "metadata_updated", resourceId |-> r,
                         timestamp |-> Now, seq |-> published + 1]
              S2 == broadcastMetadataUpdate(Srv, update, F)
          IN /\ SetReg(S2)
             /\ outbox' = socketSend(outbox, S2.wrote, published + 1)
             /\ lastOp' = [op |-> "publish", update |-> update, F |-> F,
                           wrote |-> S2.wrote]
             /\ s2c' = Deliver(S2.wrote)
  /\ published' = published + 1
  /\ UNCHANGED <<sweepIn, db, cliVars, c2s, served>>

SubscribeFrames ==
  {Stringify([type |-> t, resourceId |-> r]) : t \in {"subscribe", "unsubscribe"},
                                               r \in Resources}

NextOrder ==
  \/ \E c \in Conns : SrvConnect(c)
  \/ \E c \in Conns, data \in SubscribeFrames : SrvFrame(c, data, FALSE)
  \/ \E c \in Conns : SrvPeerClosing(c)
  \/ \E c \in Conns : SrvClose(c)
  \/ PublishNumbered

SpecOrder == Init /\ [][NextOrder]_vars

\* ------------------------------------------- EAMPClient: cache and listeners
CacheTickMs == cacheTTL
OldestAge == 2 * cacheTTL

\* the resourceId the application subscribes to in the runs of the cache
Watched == "sales-chart-2024"

\* the update events a peer sends for it: with a payload, with one that is no
\* metadata, with none
UpdateFrames ==
  {Stringify([type |-> "metadata_updated", resourceId |-> Watched, timestamp |-> Now,
              metadata |-> md]) : md \in Payloads \cup {"invalid"}}
  \cup {Stringify([type |-> "metadata_updated", resourceId |-> Watched, timestamp |-> Now])}

\* the application calls client.on('metadataUpdated', listener)
On ==
  /\ listeners < MaxListeners
  /\ SetCli([Cli EXCEPT !.listeners = @ + 1])
  /\ lastOp' = Other
  /\ UNCHANGED <<srvVars, s2c>>

\* the application calls client.getMetadata(r)
GetMetadata(r) ==
  /\ Len(gets) < MaxGets
  /\ LET T2 == getMetadata(Cli, r)
     IN /\ SetCli(T2)
        /\ lastOp' = [op |-> "getMetadata", resourceId |-> r,
                      returned |-> T2.returned, requested |-> T2.requested]
  /\ UNCHANGED <<srvVars, s2c>>

\* the response of a pending GET arrives
Response(i) ==
  /\ i \in DOMAIN gets
  /\ \E res \in Payloads \cup {None} :
       /\ SetCli(response(Cli, i, res))
       /\ lastOp' = [op |-> "fetched", resourceId |-> gets[i], value |-> res]
  /\ UNCHANGED <<srvVars, s2c>>

\* the application calls client.refreshMetadata(r)
RefreshMetadata(r) ==
  /\ Len(gets) < MaxGets
  /\ SetCli(refreshMetadata(Cli, r))
  /\ lastOp' = [op |-> "refresh", resourceId |-> r]
  /\ UNCHANGED <<srvVars, s2c>>

\* the application calls client.clearCache()
ClearCache ==
  /\ cache # <<>>
  /\ SetCli(clearCache(Cli))
  /\ lastOp' = [op |-> "clear"]
  /\ UNCHANGED <<srvVars, s2c>>

\* CacheTickMs of time pass for the cache entries
CacheTick ==
  /\ \E r \in DOMAIN cache : cache[r].age < OldestAge
  /\ SetCli([Cli EXCEPT !.cache = [r \in DOMAIN @ |->
                          [@[r] EXCEPT !.age = IF @ + CacheTickMs > OldestAge
                                               THEN OldestAge ELSE @ + CacheTickMs]]])
  /\ lastOp' = Other
  /\ UNCHANGED <<srvVars, s2c>>

\* the cleanup interval of the cache fires
CacheCleanup ==
  /\ \E r \in DOMAIN cache : cache[r].age > cacheTTL
  /\ SetCli(cleanup(Cli))
  /\ lastOp' = [op |-> "cleanup"]
  /\ UNCHANGED <<srvVars, s2c>>

\* 'message' event of socket s carrying an update event; F: the listeners that throw
UpdateMessage(s) ==
  /\ ~served
  /\ sock[s] = "open"
  /\ \E f \in UpdateFrames, F \in SUBSET (1..listeners) :
       LET T2 == onMessage(Cli, f, F)
       IN /\ SetCli(T2)
          /\ lastOp' = [op |-> "message", resourceId |-> Prop(Parse(f), "resourceId"),
                        metadata |-> Prop(Parse(f), "metadata"),
                        called |-> T2.called, saw |-> T2.saw]
  /\ UNCHANGED <<srvVars, s2c>>

NextCache ==
  \/ On
  \/ \E r \in Resources : GetMetadata(r)
  \/ \E i \in 1..MaxGets : Response(i)
  \/ \E r \in Resources : RefreshMetadata(r)
  \/ ClearCache
  \/ CacheTick
  \/ CacheCleanup
  \/ Subscribe(Watched)
  \/ \E s \in Socks : SockOpen(s)
  \/ \E s \in Socks : UpdateMessage(s)

SpecCache == Init /\ [][NextCache]_vars

\* ------------------------------------------------------------ EAMPProvider
Prov == [subs |-> provSubs, sets |-> provSets, handles |-> handles, sent |-> provSent]

\* client.ws of the provider's client: EAMPClient declares no ws property
clientWs == "undefined"

\* if (client.ws && client.ws.readyState === WebSocket.OPEN) client.ws.send(JSON.stringify(m))
providerSend(P, m) ==
  IF clientWs = "undefined" THEN P
  ELSE [P EXCEPT !.sent = Append(@, Stringify(m))]

\* subscribe(resourceId, callback) of the provider: the registry after the call,
\* with the returned release closure as the last handle
providerSubscribe(P, r, cb) ==
  LET new == Len(P.sets) + 1
      P1 == IF r \in DOMAIN P.subs THEN P
            ELSE providerSend([P EXCEPT !.subs = MapSet(@, r, new),
                                        !.sets = Append(@, {})],
                              [type |-> "subscribe", resourceId |-> r])
      callbacks == P1.subs[r]
  IN [P1 EXCEPT !.sets[callbacks] = @ \cup {cb},
                !.handles = Append(@, [resourceId |-> r, callback |-> cb,
                                       callbacks |-> callbacks, calls |-> 0])]

\* the closure returned by subscribe, called: h is its position in handles
release(P, h) ==
  LET c == P.handles[h]
      P1 == [P EXCEPT !.sets[c.callbacks] = @ \ {c.callback},
                      !.handles[h].calls = IF @ < 2 THEN @ + 1 ELSE @]
  IN IF P1.sets[c.callbacks] = {}
     THEN providerSend([P1 EXCEPT !.subs = IF c.resourceId \in DOMAIN @
                                           THEN MapDelete(@, c.resourceId) ELSE @],
                       [type |-> "unsubscribe", resourceId |-> c.resourceId])
     ELSE P1

\* unsubscribe(resourceId) of the provider
providerUnsubscribe(P, r) ==
  IF r \in DOMAIN P.subs
  THEN providerSend([P EXCEPT !.subs = MapDelete(@, r)],
                    [type |-> "unsubscribe", resourceId |-> r])
  ELSE P

SetProv(P) ==
  /\ provSubs' = P.subs
  /\ provSets' = P.sets
  /\ handles' = P.handles
  /\ provSent' = P.sent

sdkUnchanged ==
  UNCHANGED <<ws, sock, reconnectAttempts, isReconnecting, messageQueue, hbLive, hbCur,
              ptLive, ptCur, sleepers, waiter, fatal, lost, userClosed, cliSubs, notified,
              cache, listeners, gets, http>>

\* a component calls the provider's subscribe(r, cb)
Register(r, cb) ==
  /\ Len(handles) < MaxHandles
  /\ SetProv(providerSubscribe(Prov, r, cb))
  /\ lastOp' = [op |-> "register", resourceId |-> r]
  /\ sdkUnchanged
  /\ UNCHANGED <<srvVars, netVars>>

\* a component calls the release closure it was given
Release(h) ==
  /\ h \in DOMAIN handles
  /\ SetProv(release(Prov, h))
  /\ lastOp' = [op |-> "release", again |-> handles[h].calls > 0,
                live |-> \E g \in DOMAIN handles : handles[g].calls = 0 /\ g # h]
  /\ sdkUnchanged
  /\ UNCHANGED <<srvVars, netVars>>

\* a component calls the provider's unsubscribe(r)
ProviderUnsubscribe(r) ==
  /\ SetProv(providerUnsubscribe(Prov, r))
  /\ lastOp' = [op |-> "providerUnsubscribe", had |-> r \in DOMAIN provSubs]
  /\ sdkUnchanged
  /\ UNCHANGED <<srvVars, netVars>>

\* the provider with its client: the effect cleanup calls client.disconnect()
NextProvider ==
  \/ \E r \in Resources, cb \in Callbacks : Register(r, cb)
  \/ \E h \in 1..MaxHandles : Release(h)
  \/ \E r \in Resources : ProviderUnsubscribe(r)
  \/ Disconnect

SpecProvider == Init /\ [][NextProvider]_vars

\* ------------------------------------------- HttpTransport.request by itself
\* everything but the request() call stays as it is
httpFrame ==
  UNCHANGED <<srvVars, ws, sock, reconnectAttempts, isReconnecting, messageQueue, hbLive,
              hbCur, ptLive, ptCur, sleepers, waiter, fatal, lost, userClosed, cliSubs,
              notified, cache, listeners, gets, provVars, netVars>>

\* get/post/put/delete call request() on a transport whose options.retryAttempts is n
HttpRequest ==
  /\ http.phase \in {"idle", "returned", "threw"}
  /\ \E n \in 0..MaxRetry : http' = request(n)
  /\ lastOp' = Other
  /\ httpFrame

\* the pending makeRequest settles
MakeRequestDone ==
  /\ http.phase = "calling"
  /\ \E outcome \in ErrorCodes \cup {"response"} : http' = makeRequestDone(http, outcome)
  /\ lastOp' = Other
  /\ httpFrame

\* the timer of sleep(delay) fires
RetrySleepDone ==
  /\ http.phase = "sleeping"
  /\ http' = retrySleepDone(http)
  /\ lastOp' = Other
  /\ httpFrame

NextHttp ==
  \/ HttpRequest
  \/ MakeRequestDone
  \/ RetrySleepDone

\* makeRequest settles (fetch is aborted after options.timeout) and timers fire
SpecHttp ==
  Init /\ [][NextHttp]_vars /\ WF_vars(MakeRequestDone) /\ WF_vars(RetrySleepDone)

\* ------------------------------------------ the SDK client against the server
InitServed == Fresh(TRUE)

\* wss 'connection' event for socket s of the transport
Accept(s) ==
  /\ served
  /\ sock[s] = "connecting"
  /\ srvWs[s] = "none"
  /\ \E throws \in BOOLEAN :
       LET S2 == handleConnection(Srv, s, Now, throws)
       IN /\ SetSrv(S2)
          /\ s2c' = Deliver(S2.wrote)
  /\ lastOp' = Other
  /\ UNCHANGED <<sweepIn, cliVars, c2s, served>>

\* ws 'message' event on the server for the next frame the transport wrote
Receive(s) ==
  /\ served
  /\ srvWs[s] = "open"
  /\ c2s[s] # <<>>
  /\ Len(s2c[s]) < MaxInFlight
  /\ \E throws \in BOOLEAN :
       LET S2 == handleMessage(Srv, s, Head(c2s[s]), Now, throws)
       IN /\ SetSrv(S2)
          /\ s2c' = Deliver(S2.wrote)
  /\ c2s' = [c2s EXCEPT ![s] = Tail(@)]
  /\ lastOp' = Other
  /\ UNCHANGED <<sweepIn, cliVars, served>>

\* ws 'close' event on the server for a socket the transport no longer has open
Hangup(s) ==
  /\ served
  /\ srvWs[s] = "open"
  /\ sock[s] \notin {"connecting", "open"}
  /\ SetSrv([handleDisconnection(Srv, s) EXCEPT !.ws[s] = "closed"])
  /\ lastOp' = Other
  /\ UNCHANGED <<sweepIn, cliVars, netVars>>

Next ==
  \/ \E r \in Resources : Subscribe(r)
  \/ \E r \in Resources : Unsubscribe(r)
  \/ \E i \in 1..MaxSockets : SleepDone(i)
  \/ \E s \in Socks : SockOpen(s)
  \/ \E s \in Socks : SockConnectFail(s)
  \/ \E s \in Socks : SockClose(s)
  \/ \E s \in Socks : SockMessage(s)
  \/ \E s \in Socks : Accept(s)
  \/ \E s \in Socks : Receive(s)
  \/ \E s \in Socks : Hangup(s)
  \/ \E c \in Conns : SrvConnect(c)
  \/ Publish

Spec == InitServed /\ [][Next]_vars

\* ------------------------------------------------------------------ claims
Receivers(wrote, update) == {wrote[i].to : i \in {j \in DOMAIN wrote : wrote[j].msg = update}}

\* C3: in every reachable server state, c is in index[r] exactly when c is a
\* connection of the registry and r is in c's subscription set; in particular no
\* index entry names a connection that has left the registry.
C3_IndexMatchesRegistry ==
  \A r \in Resources \cup DOMAIN subscriptions, c \in Conns :
    (c \in Indexed(r)) <=> (c \in DOMAIN clients /\ r \in clients[c].subscriptions)

\* a connection has left the registry while another one is still indexed under two ids
C3_Witness ==
  \E c, d \in Conns :
    /\ srvWs[c] \in {"open", "closing", "closed"} /\ c \notin DOMAIN clients
    /\ d \in DOMAIN clients /\ clients[d].subscriptions = Resources
    /\ \A r \in Resources : Indexed(r) = {d}

\* C4: a broadcast in which writes to the connections F throw removes exactly F
\* from the registry and from every index entry, and writes the event to every
\* other subscriber of the resourceId that sendToClient can write to.
C4_SendFailureIsolated ==
  [][lastOp'.op = "publish" =>
       LET F == lastOp'.F
           r == lastOp'.update.resourceId
       IN /\ DOMAIN clients' = (DOMAIN clients) \ F
          /\ \A c \in DOMAIN clients' : clients'[c] = clients[c]
          /\ \A q \in Resources : F \cap (IF q \in DOMAIN subscriptions'
                                          THEN subscriptions'[q] ELSE {}) = {}
          /\ \A q \in Resources : (IF q \in DOMAIN subscriptions'
                                   THEN subscriptions'[q] ELSE {}) = Indexed(q) \ F
          /\ Receivers(lastOp'.wrote, lastOp'.update) = Writable(Indexed(r)) \ F
  ]_vars

\* a broadcast to two subscribers in which the write to the first one threw and
\* the second one got the event
C4_Witness ==
  /\ lastOp.op = "publish"
  /\ \E c, d \in Conns :
       /\ c < d
       /\ lastOp.F = {c}
       /\ c \notin DOMAIN clients
       /\ d \in Receivers(lastOp.wrote, lastOp.update)

\* ---- client-side claims (SpecClient)
\* a frame the client encodes as a subscribe request for r
IsSubscribeFor(f, r) ==
  /\ f.json
  /\ Prop(f.body, "resourceId") = r
  /\ Prop(f.body, "type") = "subscribe" \/ Prop(f.body, "action") = "subscribe"

CountSubscribes(frames, r) ==
  Cardinality({i \in DOMAIN frames : IsSubscribeFor(frames[i], r)})

\* a subscribe(r) call is still on its way to the socket
PendingSubscribe(r) ==
  \/ \E s \in Socks : waiter[s].sub = r
  \/ \E i \in DOMAIN sleepers : sleepers[i].sub = r

\* C1: when a socket opens after the connection was lost, the client writes
\* exactly one subscribe message on it for each resourceId that was in its
\* subscription set, and none for a resourceId that is not wanted.
C1_ResubscribeOnReopen ==
  (lastOp.op = "open" /\ lastOp.lost) =>
     /\ \A r \in lastOp.subs : CountSubscribes(lastOp.wrote, r) = 1
     /\ \A r \in Resources \ lastOp.subs :
          CountSubscribes(lastOp.wrote, r) > 0 => (r \in cliSubs \/ PendingSubscribe(r))

\* a connection attempt is scheduled or in flight
AttemptPending == sleepers # <<>> \/ \E s \in Socks : sock[s] = "connecting"

\* C6: when a reconnect attempt fails with budget left, the next attempt is
\* scheduled after min(reconnectDelay * 2^k, 30000) ms, k the attempts made
\* so far, and the attempt counter goes up by one.
C6_BackoffSchedule ==
  (/\ lastOp.op = "close" /\ ~lastOp.opened /\ lastOp.via = "reconnect"
   /\ lastOp.attempts < maxReconnectAttempts /\ ~userClosed) =>
     /\ reconnectAttempts = lastOp.attempts + 1
     /\ \E i \in DOMAIN sleepers :
          sleepers[i].delay = Min(reconnectDelay * Pow2(lastOp.attempts), reconnectDelayCap)

\* C7: after a loss the transport keeps retrying until maxReconnectAttempts
\* attempts were made; it stops only then, and then emits the fatal error.
C7_FiveAttemptsThenFatal ==
  /\ (lost /\ ~userClosed /\ ~isConnected(Cli) /\ ~AttemptPending) =>
        (fatal /\ reconnectAttempts = maxReconnectAttempts)
  /\ fatal => reconnectAttempts = maxReconnectAttempts

\* C8: a close with code 1000 never starts a reconnect; a close with any other
\* code always leaves a reconnect attempt scheduled.
C8_CloseCodeDecides ==
  lastOp.op = "close" =>
     /\ (lastOp.opened /\ lastOp.code = NormalClosure) => ~lastOp.started
     /\ (lastOp.code # NormalClosure /\ ~userClosed) => AttemptPending

\* C9: after disconnect() the queue is empty, no timer of the transport is
\* armed, and no connection attempt is made until the application asks again.
C9_DisconnectIsFinal ==
  userClosed =>
     /\ messageQueue = <<>>
     /\ hbLive = 0 /\ ptLive = 0
     /\ sleepers = <<>>
     /\ \A s \in Socks : sock[s] # "connecting"

\* C10: the transport has at most one socket that is CONNECTING or OPEN.
C10_OneSocket ==
  Cardinality({s \in Socks : sock[s] \in {"connecting", "open"}}) <= 1

\* ---- end-to-end claims (Spec)
\* the transport is connected, the server holds its connection, and nothing
\* the client asked for is still on its way
Settled ==
  /\ isConnected(Cli)
  /\ srvWs[ws] = "open" /\ ws \in DOMAIN clients
  /\ c2s[ws] = <<>> /\ messageQueue = <<>>
  /\ \A r \in Resources : ~PendingSubscribe(r)

\* C2: with no subscribe/unsubscribe message in transit, the server's index
\* lists the client's current connection under r exactly when r is in the
\* client's subscription set.
C2_IndexMatchesClient ==
  Settled => \A r \in Resources : (ws \in Indexed(r)) <=> (r \in cliSubs)

\* C5: once X's subscribe for r has completed over an open connection, a
\* publish for r (no write failing) writes the update to X's connection, where
\* X's listener gets it from, and to no other client that is not subscribed to r.
C5_EndToEndDelivery ==
  (lastOp.op = "publish" /\ Settled /\ lastOp.F = {}) =>
     LET r == lastOp.update.resourceId
     IN /\ r \in cliSubs => ws \in Receivers(lastOp.wrote, lastOp.update)
        /\ \A c \in Conns \ Socks : c \notin Indexed(r) =>
              c \notin Receivers(lastOp.wrote, lastOp.update)

\* ---- transport claims (SpecTransport)
\* C11: send() while not connected appends the message to the queue and leaves
\* a connection attempt pending; whenever the queue is non-empty and the
\* transport is not connected (and disconnect() was not called), a connection
\* attempt is pending.
C11_QueuedMeansConnecting ==
  /\ (lastOp.op = "send" /\ ~lastOp.connected) =>
        /\ messageQueue # <<>> /\ messageQueue[Len(messageQueue)] = lastOp.m
        /\ AttemptPending
  /\ (messageQueue # <<>> /\ ~isConnected(Cli) /\ ~userClosed) => AttemptPending

\* C12: when a socket opens, the flush writes the first k queued messages in
\* queue order, each once, and leaves the others queued in their order; on a
\* connected transport k is the number of writes before the first one that
\* throws, and the message whose write threw is again the head of the queue.
C12_FlushIsFifo ==
  lastOp.op = "open" =>
     LET q == lastOp.queue
         f == lastOp.flushed
         k == Len(f)
     IN /\ k <= Len(q)
        /\ \A i \in 1..k : f[i] = Stringify(q[i])
        /\ Len(messageQueue) >= Len(q) - k
        /\ \A i \in 1..(Len(q) - k) : messageQueue[i] = q[k + i]
        /\ isConnected(Cli) => k = lastOp.failAt

C12_Witness ==
  /\ lastOp.op = "open"
  /\ Len(lastOp.queue) = 3 /\ lastOp.queue[1] # lastOp.queue[2]
  /\ lastOp.failAt = 1 /\ Len(lastOp.flushed) = 1
  /\ Len(messageQueue) = 2

\* C13: a pong timeout that fires on a connected transport closes the socket
\* with a code other than 1000, and when that socket's 'close' event arrives a
\* reconnect attempt is pending (unless disconnect() was called meanwhile).
C13_PongTimeoutReconnects ==
  [][/\ (lastOp'.op = "pongTimeout" /\ isConnected(Cli)) => sock'[ws] = "timedout"
     /\ \A s \in Socks :
          (sock[s] = "timedout" /\ sock'[s] = "closed") =>
             /\ lastOp'.code # NormalClosure
             /\ ~userClosed' => AttemptPending']_vars

\* ---- server claims (SpecServer)
\* C17 as stated: no registered connection has a lastSeen older than twice the
\* heartbeat interval, in any reachable state.
C17_NeverOlderThanTwice ==
  \A c \in DOMAIN clients : Now - clients[c].lastSeen <= 2 * heartbeatInterval

\* C17 as the code has it: right after a sweep no registered connection is
\* older than twice the heartbeat interval, and between sweeps none is older
\* than that plus the sweep period.
C17_SweptWithinThree ==
  /\ lastOp.op = "sweep" =>
        \A c \in DOMAIN clients : Now - clients[c].lastSeen <= 2 * heartbeatInterval
  /\ \A c \in DOMAIN clients : Now - clients[c].lastSeen <= 3 * heartbeatInterval

C17_Witness ==
  /\ lastOp.op = "sweep"
  /\ \E c \in DOMAIN clients : Now - clients[c].lastSeen = 2 * heartbeatInterval
  /\ \E c \in Conns : c \notin DOMAIN clients /\ srvWs[c] = "closing"

\* C18: a connection that arrives while the registry holds maxConnections
\* connections is closed and not registered, registry and index stay as they
\* were, and the registry never holds more than maxConnections connections.
C18_CapacityEnforced ==
  /\ [](Cardinality(DOMAIN clients) <= maxConnections)
  /\ [][\A c \in Conns :
          (srvWs[c] = "none" /\ srvWs'[c] # "none"
           /\ Cardinality(DOMAIN clients) >= maxConnections) =>
             /\ srvWs'[c] = "closed"
             /\ clients' = clients /\ subscriptions' = subscriptions]_vars

C18_Witness ==
  /\ lastOp.op = "rejected"
  /\ Cardinality(DOMAIN clients) = maxConnections
  /\ subscriptions # <<>>

\* C19: a step that removes connections from the registry removes exactly them
\* from every index entry and leaves the other connections' subscriptions as
\* they were; a 'close' event for a connection that handleDisconnection has
\* already removed (after an error event, a failed write or a sweep) changes
\* neither registry nor index.
C19_DisconnectionIdempotent ==
  [][/\ LET gone == (DOMAIN clients) \ (DOMAIN clients')
        IN gone # {} =>
             /\ \A r \in Resources :
                  (IF r \in DOMAIN subscriptions' THEN subscriptions'[r] ELSE {})
                     = Indexed(r) \ gone
             /\ \A d \in DOMAIN clients' :
                  clients'[d].subscriptions = clients[d].subscriptions
     /\ \A c \in Conns :
          (srvWs[c] = "closing" /\ srvWs'[c] = "closed" /\ c \notin DOMAIN clients) =>
             (clients' = clients /\ subscriptions' = subscriptions)]_vars

C19_Witness ==
  /\ lastOp.op = "closedAgain"
  /\ \E c \in DOMAIN clients : clients[c].subscriptions # {}

\* C20: the index never maps a resourceId to an empty set of connections.
C20_NoEmptyIndexEntry ==
  \A r \in DOMAIN subscriptions : subscriptions[r] # {}

C20_Witness ==
  /\ lastOp.op = "unsubscribed" /\ lastOp.last
  /\ DOMAIN subscriptions # {} /\ DOMAIN subscriptions # Resources

\* the frames an open step wrote after the flush: those of the subscribe() call
\* that was awaiting the socket
OwnFrames(op) == SubSeq(op.sent, Len(op.flushed) + 1, Len(op.sent))

\* C14: N overlapping register calls for one resourceId put exactly one
\* subscribe message on the wire (and the N releases exactly one unsubscribe):
\* a subscribe(r) call that was waiting for its socket writes a subscribe
\* message for r only if no other call has completed a subscription to r in
\* the meantime (r is not in the client's set, or its message is still queued).
C14_OneSubscribeOnWire ==
  [][ lastOp'.op = "open" =>
        \A r \in Resources :
           CountSubscribes(OwnFrames(lastOp'), r) > 0 =>
              \/ r \notin cliSubs
              \/ \E i \in DOMAIN messageQueue : IsSubscribeFor(Stringify(messageQueue[i]), r) ]_vars

\* C15: after any registrations followed by the release of every handle the
\* client registry is back in its empty initial state: once the client's
\* subscription set is empty and no subscribe() call is still under way, no
\* message remains pending in the transport's queue.
C15_RoundTripLeavesNothing ==
  (cliSubs = {} /\ \A r \in Resources : ~PendingSubscribe(r)) => messageQueue = <<>>

\* C16: releasing is idempotent: a call of a release function that was called
\* before changes nothing, neither the registry nor the callback sets of the
\* other handles, and sends no message.
C16_SecondReleaseIsNoop ==
  [][ (lastOp'.op = "release" /\ lastOp'.again) =>
        (provSubs' = provSubs /\ provSets' = provSets /\ provSent' = provSent) ]_vars

\* ---- server-side claims about messages and fan-out (SpecServer)
\* the registry entry of c apart from lastSeen, which every message refreshes
SubsOf(cl, c) == IF c \in DOMAIN cl THEN cl[c].subscriptions ELSE {}

C23_FanOutExact ==
  [][ lastOp'.op = "publish" =>
        LET r == lastOp'.update.resourceId
            w == lastOp'.wrote
        IN /\ \A i \in DOMAIN w : w[i].msg = lastOp'.update /\ w[i].to \in Indexed(r)
           /\ \A i, j \in DOMAIN w : w[i].to = w[j].to => i = j
           /\ \A c \in Indexed(r) :
                \/ \E i \in DOMAIN w : w[i].to = c
                \/ srvWs[c] # "open"
                \/ c \in lastOp'.F
           /\ Indexed(r) = {} =>
                (w = <<>> /\ clients' = clients /\ subscriptions' = subscriptions
                 /\ srvWs' = srvWs /\ s2c' = s2c) ]_vars

\* a broadcast reached a subscriber while another connection, subscribed only
\* to the other resourceId, got nothing
C23_Witness ==
  /\ lastOp.op = "publish"
  /\ Cardinality(Receivers(lastOp.wrote, lastOp.update)) = 1
  /\ \E c \in DOMAIN clients :
       /\ c \notin Receivers(lastOp.wrote, lastOp.update)
       /\ clients[c].subscriptions # {}
       /\ lastOp.update.resourceId \notin clients[c].subscriptions

\* the connection c is in the registry of the next state exactly as in this one,
\* lastSeen apart, its socket is still open and the index is unchanged
Untouched(c) ==
  /\ c \in DOMAIN clients' /\ DOMAIN clients' = DOMAIN clients
  /\ \A d \in DOMAIN clients : SubsOf(clients', d) = SubsOf(clients, d)
  /\ subscriptions' = subscriptions
  /\ srvWs' = srvWs

BadFrames == {Stringify([type |-> "bogus"]), [json |-> FALSE]}

C28_CrudPublishes ==
  [][ (lastOp'.op = "route" /\ lastOp'.status \in {200, 201, 204}) =>
        \A c \in Writable(Indexed(lastOp'.resourceId)) :
           \E i \in DOMAIN lastOp'.wrote :
              /\ lastOp'.wrote[i].to = c
              /\ lastOp'.wrote[i].msg.type = "metadata_updated"
              /\ lastOp'.wrote[i].msg.resourceId = lastOp'.resourceId ]_vars

\* C30: a socket write that fails in send() while the connection is open is
\* retried: the message is kept in the pending queue for a later send.
C30_FailedSendRetained ==
  [][ (lastOp'.op = "send" /\ lastOp'.connected /\ lastOp'.throws) =>
        \E i \in DOMAIN messageQueue' :
           messageQueue'[i] = lastOp'.m /\ i > Len(messageQueue) ]_vars

\* C27: every resourceId in which interest is registered (its callback set is
\* not empty) has had a subscribe message sent by the provider, or has one
\* waiting in the transport's queue.
C27_InterestIsAnnounced ==
  \A r \in DOMAIN provSubs :
     provSets[provSubs[r]] # {} =>
        \/ \E i \in DOMAIN provSent : IsSubscribeFor(provSent[i], r)
        \/ \E i \in DOMAIN messageQueue : IsSubscribeFor(Stringify(messageQueue[i]), r)

\* ---- claims about the client's cache and listeners (SpecCache)
\* C25: an update event that carries a metadata payload is in the cache,
\* as a fresh entry for its resourceId, before any listener runs: every
\* listener that reads the cache for that resourceId gets the new payload.
C25_CacheBeforeCallbacks ==
  [][ (lastOp'.op = "message" /\ lastOp'.metadata \in Payloads) =>
        /\ lastOp'.resourceId \in DOMAIN cache'
        /\ cache'[lastOp'.resourceId] = [value |-> lastOp'.metadata, age |-> 0]
        /\ lastOp'.called > 0 => lastOp'.saw = lastOp'.metadata ]_vars

\* two listeners were called for an update whose payload replaced the cached one
C25_Witness ==
  /\ lastOp.op = "message" /\ lastOp.metadata = "v2"
  /\ lastOp.called = 2 /\ lastOp.saw = "v2"

\* C26: every listener registered for an update event is called, also when
\* one of them throws.
C26_AllListenersCalled ==
  [][ (lastOp'.op = "message" /\ lastOp'.metadata # "invalid") =>
        lastOp'.called = listeners ]_vars

\* the cache holds an entry for r whose TTL has not expired
FreshEntry(r) == r \in DOMAIN cache /\ cache[r].age <= cacheTTL

\* a getMetadata(r) that finds a fresh entry returns its value and issues no request
HitsAreServed ==
  (lastOp'.op = "getMetadata" /\ FreshEntry(lastOp'.resourceId)) =>
     /\ ~lastOp'.requested
     /\ lastOp'.returned = cache[lastOp'.resourceId].value

\* a successful getMetadata(r) leaves its result in the cache as a fresh entry
FetchIsCached ==
  (lastOp'.op = "fetched" /\ lastOp'.value # None) =>
     /\ lastOp'.resourceId \in DOMAIN cache'
     /\ cache'[lastOp'.resourceId] = [value |-> lastOp'.value, age |-> 0]

\* the step is refreshMetadata(r) or clearCache()
Invalidates(r) ==
  \/ lastOp'.op = "clear"
  \/ lastOp'.op = "refresh" /\ lastOp'.resourceId = r

\* C29 as stated: until its TTL expires or refreshMetadata or clearCache is
\* called, the entry of a successful getMetadata(r) keeps the same metadata,
\* and every getMetadata(r) returns it without an HTTP request.
C29_SameMetadataUntilExpiry ==
  [][ /\ HitsAreServed
      /\ FetchIsCached
      /\ \A r \in Resources :
           (FreshEntry(r) /\ ~Invalidates(r)) =>
              (r \in DOMAIN cache' /\ cache'[r].value = cache[r].value) ]_vars

\* C29, amended: the entry stays and every getMetadata(r) is served from it
\* without an HTTP request; its metadata is the same unless an update event
\* with a payload for r, or the response of another fetch of r, replaced it.
C29_CachedUntilExpiryOrUpdate ==
  [][ /\ HitsAreServed
      /\ FetchIsCached
      /\ \A r \in Resources :
           (FreshEntry(r) /\ ~Invalidates(r)) =>
              /\ r \in DOMAIN cache'
              /\ \/ cache'[r].value = cache[r].value
                 \/ /\ lastOp'.op = "message" /\ lastOp'.resourceId = r
                    /\ cache'[r].value = lastOp'.metadata
                 \/ /\ lastOp'.op = "fetched" /\ lastOp'.resourceId = r
                    /\ cache'[r].value = lastOp'.value ]_vars

\* a getMetadata was served from an entry at the very end of its TTL, and the
\* entry holds the payload of an update event
C29_Witness ==
  /\ lastOp.op = "getMetadata" /\ ~lastOp.requested /\ lastOp.returned = "v2"
  /\ cache[lastOp.resourceId].age = cacheTTL
  /\ lastOp.resourceId = Watched

\* ---- server claims: the heartbeat sweep and ping (SpecServer)
\* C31: a sweep terminates every registered connection whose lastSeen is older
\* than twice the heartbeat interval and cleans up after it as a
\* disconnection does (out of the registry and of every index entry); every
\* other registered connection is kept with its registry entry and its index
\* entries as they were.
C31_SweepRemovesExactlyTheSilent ==
  [][lastOp'.op = "sweep" =>
       \A c \in DOMAIN clients :
         IF Now - clients[c].lastSeen > 2 * heartbeatInterval
         THEN /\ c \notin DOMAIN clients'
              /\ srvWs'[c] = "closing"
              /\ \A r \in DOMAIN subscriptions' : c \notin subscriptions'[r]
         ELSE /\ c \in DOMAIN clients'
              /\ clients'[c] = clients[c]
              /\ srvWs'[c] = srvWs[c]
              /\ SubsOf(clients', c) = SubsOf(clients, c)
              /\ \A r \in Resources :
                    (r \in DOMAIN subscriptions /\ c \in subscriptions[r])
                      <=> (r \in DOMAIN subscriptions' /\ c \in subscriptions'[r])]_vars

\* a sweep has terminated a connection and kept a subscribed one
C31_Witness ==
  /\ lastOp.op = "sweep"
  /\ lastOp.terminated # {}
  /\ \E c \in DOMAIN clients : clients[c].subscriptions # {}

PingFrame == Stringify([type |-> "ping"])

\* what handleMessage writes to sockets for a ping of connection c
PingReply(c, throws) == handleMessage(Srv, c, PingFrame, Now, throws).wrote

\* C32 as stated: every ping from a registered connection is answered with one
\* pong written to that connection, refreshes its lastSeen, and leaves registry
\* membership, subscription sets and index as they were.
C32_PingAnswered ==
  [][ lastOp'.op = "ping" =>
      \A c \in Conns, throws \in BOOLEAN :
        (/\ c \in DOMAIN clients /\ throws = lastOp'.throws
         /\ SrvFrame(c, PingFrame, throws)) =>
           /\ PingReply(c, throws) = <<[to |-> c, msg |-> [type |-> "pong"]]>>
           /\ Untouched(c)
           /\ clients'[c].lastSeen = Now ]_vars

\* C32, amended: it does so whenever the write of the pong succeeds; when that
\* write throws, nothing is written and the connection is removed from
\* registry and index like any disconnected connection.
C32_PingAnsweredUnlessWriteFails ==
  [][ lastOp'.op = "ping" =>
      \A c \in Conns, throws \in BOOLEAN :
        (/\ c \in DOMAIN clients /\ throws = lastOp'.throws
         /\ SrvFrame(c, PingFrame, throws)) =>
           IF throws
           THEN /\ PingReply(c, throws) = <<>>
                /\ DOMAIN clients' = (DOMAIN clients) \ {c}
                /\ \A d \in DOMAIN clients' : clients'[d] = clients[d]
                /\ \A r \in Resources :
                     (IF r \in DOMAIN subscriptions' THEN subscriptions'[r] ELSE {})
                       = Indexed(r) \ {c}
           ELSE /\ PingReply(c, throws) = <<[to |-> c, msg |-> [type |-> "pong"]]>>
                /\ Untouched(c)
                /\ clients'[c].lastSeen = Now
                /\ \A d \in (DOMAIN clients) \ {c} : clients'[d] = clients[d] ]_vars

\* a subscribed connection that had been silent for an interval sent a ping
\* and was answered; another connection is still as old as it was
C32_Witness ==
  /\ lastOp.op = "ping" /\ ~lastOp.throws
  /\ \E c, d \in DOMAIN clients :
       /\ clients[c].subscriptions # {} /\ clients[c].lastSeen = Now /\ srvWs[c] = "open"
       /\ clients[d].lastSeen < Now

\* ---- client claims: heartbeat and flags (SpecClient)
\* C33: a pong that arrives on the current socket while a pong timeout is
\* armed cancels a timeout, so that no timeout is left to close the connection
\* for a ping that was answered.
C33_PongCancelsTimeout ==
  (lastOp.op = "pong" /\ lastOp.current /\ lastOp.armed > 0) => lastOp.left < lastOp.armed

\* ---- provider claims (SpecProvider)
\* the handles for the resource of handle h, other than h, that were never released
OtherLive(h) ==
  {g \in DOMAIN handles : /\ g # h /\ handles[g].calls = 0
                          /\ handles[g].resourceId = handles[h].resourceId}

\* the callbacks that events for r are routed to
Routed(subs, sets, r) == IF r \in DOMAIN subs THEN sets[subs[r]] ELSE {}

\* C34: the first call of a release closure for r, while another handle for r
\* is held, sends nothing and leaves r routed to the callbacks of the handles
\* still held; when it is the last handle held for r, it sends one unsubscribe
\* for r and deletes r's routing state.
C34_LastReleaseUnsubscribes ==
  [][ lastOp'.op = "release" =>
      \A h \in DOMAIN handles :
        (/\ handles[h].calls = 0
         /\ handles[h].callback \in Routed(provSubs, provSets, handles[h].resourceId)
         /\ Release(h)) =>
           LET r == handles[h].resourceId
           IN IF OtherLive(h) # {}
              THEN /\ provSent' = provSent
                   /\ \A g \in OtherLive(h) :
                        handles[g].callback \in Routed(provSubs, provSets, r)
                          => handles[g].callback \in Routed(provSubs', provSets', r)
              ELSE /\ provSent' = Append(provSent,
                                         Stringify([type |-> "unsubscribe", resourceId |-> r]))
                   /\ r \notin DOMAIN provSubs' ]_vars

\* C34, the part about the handles that stay: a release for r while another
\* handle for r is held leaves the callbacks of the handles still held routed.
C34_OthersKeepReceiving ==
  [][ lastOp'.op = "release" =>
      \A h \in DOMAIN handles :
        (/\ handles[h].calls = 0 /\ OtherLive(h) # {} /\ Release(h)) =>
           \A g \in OtherLive(h) :
             handles[g].callback \in Routed(provSubs, provSets, handles[h].resourceId)
               => handles[g].callback \in Routed(provSubs', provSets', handles[h].resourceId) ]_vars

\* C35: isReconnecting is set only while a reconnect attempt is in progress:
\* when the transport is not connected and neither a backoff sleep nor a
\* connection attempt is pending, the flag is false.
C35_FlagMeansAttempt ==
  (~isConnected(Cli) /\ ~AttemptPending) => ~isReconnecting

\* C36: the 'close' event of a socket that is no longer the transport's
\* current socket, arriving while the current socket is OPEN, leaves the
\* heartbeat timers armed as they were and starts no reconnect.
C36_StaleCloseIsIgnored ==
  [][ lastOp'.op = "close" =>
      \A s \in Socks :
        (/\ s # ws /\ isConnected(Cli) /\ SockClose(s)) =>
           /\ hbLive' = hbLive /\ hbCur' = hbCur
           /\ ptLive' = ptLive /\ ptCur' = ptCur
           /\ sleepers' = sleepers /\ isReconnecting' = isReconnecting ]_vars

\* C37: a subscribe(r) call that fails, because its connection attempt fails
\* or because the write of its subscribe message throws, leaves the client's
\* subscription set as it was.
C37_FailedSubscribeAddsNothing ==
  [][ /\ (lastOp'.op = "close" /\ ~lastOp'.opened /\ lastOp'.via = "subscribe") =>
           cliSubs' = cliSubs
      /\ lastOp'.op = "open" =>
           \A s \in Socks :
             (/\ sock[s] = "connecting" /\ waiter[s].via = "subscribe"
              /\ isConnected(opened(Cli, s, lastOp'.failAt))
              /\ SetCli(onOpen(Cli, s, lastOp'.failAt, TRUE))) => cliSubs' = cliSubs
      /\ \A r \in Resources :
           (/\ isConnected(Cli) /\ r \notin cliSubs
            /\ SetCli(subscribe(Cli, r, TRUE))) => cliSubs' = cliSubs ]_vars

\* the connection attempt of a subscribe() call has failed, the resource is
\* not in the subscription set, and no reconnect stands in for the call
C37_Witness ==
  /\ lastOp.op = "close" /\ ~lastOp.opened /\ lastOp.via = "subscribe"
  /\ cliSubs = {}
  /\ \E s \in Socks : sock[s] = "closed"

\* ---- client claims: cache and subscriptions (SpecCache)
\* C38: once an update event for r has been handled, the cache holds no value
\* for r that getMetadata(r) would return other than the payload the event
\* carried.
C38_EventInvalidatesCache ==
  (lastOp.op = "message" /\ lastOp.metadata # "invalid") =>
     (FreshEntry(lastOp.resourceId) =>
        /\ lastOp.metadata # "undefined"
        /\ cache[lastOp.resourceId].value = lastOp.metadata)

\* C39: 'metadataUpdated' is emitted for an incoming metadata_updated message
\* only if the message's resourceId is in the client's subscription set.
C39_OnlySubscribedAreEmitted ==
  (/\ lastOp.op = "update"
   /\ [resourceId |-> lastOp.resourceId, timestamp |-> Now] \in notified)
    => lastOp.resourceId \in cliSubs

\* ---- HttpTransport claims (SpecHttp)
\* the request() call is over
RequestOver == http.phase \in {"returned", "threw"}

\* what request() has done so far is what the claim allows
RequestWithinBudget ==
  /\ http.calls <= http.retryAttempts + 1
  /\ Len(http.errors) <= http.calls
  /\ \A i \in DOMAIN http.errors :
        http.errors[i] \in NotRetried => (i = Len(http.errors) /\ http.phase = "threw")
  /\ http.phase = "returned" => Len(http.errors) = http.calls - 1
  /\ http.phase = "threw" =>
        /\ Len(http.errors) = http.calls /\ http.calls >= 1
        /\ http.thrown = http.errors[Len(http.errors)]
        /\ http.thrown \in NotRetried \/ http.calls = http.retryAttempts + 1
  /\ http.phase = "sleeping" => http.calls <= http.retryAttempts

\* C40: request() makes at most retryAttempts + 1 calls of makeRequest and
\* ends: it returns at the first call that succeeds, throws at once the error
\* of a call that fails with RESOURCE_NOT_FOUND or VALIDATION_ERROR, and
\* otherwise throws the error of the last of retryAttempts + 1 failed calls.
C40_RequestTerminates ==
  /\ []RequestWithinBudget
  /\ (http.phase \in {"calling", "sleeping"}) ~> RequestOver

\* a request has thrown the error of its last attempt after using its budget
\* of three retries, the earlier errors being of another kind
C40_Witness ==
  /\ http.phase = "threw" /\ http.retryAttempts = 3 /\ http.calls = 4
  /\ http.thrown = "EAMP_ERROR" /\ http.errors[1] = "NETWORK_ERROR"

============================================================================
